---- MODULE Spec2Model ----
(***************************************************************************)
(* Model of dtsh's tokenizer (tokenize.go).  Tokenize is a single loop     *)
(* over the runes of s + " " driving a five-state machine.  A string is    *)
(* modelled as the sequence of code points that `range` yields for it, a   *)
(* rune as its integer code point.                                         *)
(***************************************************************************)
EXTENDS Integers, Sequences, FiniteSets, TLC

(* ---------------------------- bounds ----------------------------------- *)
MaxLen == 5
MaxPairs == 3

(* ------------------------- rune constants ------------------------------ *)
Space == 32
DQuote == 34
SQuote == 39
Backslash == 92
(* code point of the k-th lower-case letter, for the example inputs *)
Lower(k) == 96 + k
RuneA == Lower(1)
RuneB == 98
RuneC == Lower(3)
RuneD == Lower(4)
RuneE == Lower(5)
RuneF == 102
RuneG == Lower(7)
RuneH == Lower(8)
RuneI == Lower(9)
RuneM == Lower(13)
RuneN == 110
RuneR == 114
RuneT == 116
RuneU == Lower(21)
RuneV == 118
RuneW == Lower(23)
RuneX == Lower(24)
CtlBS == 8
CtlTab == 9
CtlLF == 10
CtlVT == 11
CtlFF == 12
CtlCR == 13
MaxRune == 1114111
RuneError == 65533
SurrogateMin == 55296
SurrogateMax == 57343

(* TokenType and its two values *)
TokenRegular == 0
TokenLiteral == 1
TokenType == {TokenRegular, TokenLiteral}

(* stateT and its five values *)
stateWhitespace == 0
stateWord == 1
stateString == 2
stateLiteral == 3
stateBackslash == 4
stateT == {stateWhitespace, stateWord, stateString, stateLiteral, stateBackslash}

(* string(token): a []rune converted to a string; a rune that is not a     *)
(* valid code point becomes U+FFFD.                                        *)
StringOf(runes) ==
  [k \in 1..Len(runes) |->
     IF runes[k] < 0 \/ runes[k] > MaxRune
        \/ (runes[k] >= SurrogateMin /\ runes[k] <= SurrogateMax)
     THEN RuneError ELSE runes[k]]

(* Token{Type: t, Value: string(token)} *)
Token(t, runes) == [Type |-> t, Value |-> StringOf(runes)]

(* mutant: the loop ranges over s alone, without the added space *)
Chars_NoTrailingSpace(str) == str

(* s + " " : the runes the loop ranges over *)
Chars(str) == str \o <<Space>>

(* The locals of Tokenize as declared before the loop *)
InitMachine ==
  [state |-> stateWhitespace, lastState |-> stateWhitespace,
   token |-> <<>>, tokens |-> <<>>]

(* mutant: the default case enters stateWord but forgets to push char *)
StepWhitespace_NoPush(m, char) ==
  IF char = DQuote THEN [m EXCEPT !.state = stateString]
  ELSE IF char = SQuote THEN [m EXCEPT !.state = stateLiteral]
  ELSE IF char = Space THEN [m EXCEPT !.state = stateWhitespace]
  ELSE [m EXCEPT !.state = stateWord]

(* mutant: a space in stateWhitespace starts a word *)
StepWhitespace_SpaceToWord(m, char) ==
  IF char = DQuote THEN [m EXCEPT !.state = stateString]
  ELSE IF char = SQuote THEN [m EXCEPT !.state = stateLiteral]
  ELSE IF char = Space THEN [m EXCEPT !.state = stateWord]
  ELSE [m EXCEPT !.token = Append(@, char), !.state = stateWord]

(* case stateWhitespace *)
StepWhitespace(m, char) ==
  IF char = DQuote THEN [m EXCEPT !.state = stateString]
  ELSE IF char = SQuote THEN [m EXCEPT !.state = stateLiteral]
  ELSE IF char = Space THEN [m EXCEPT !.state = stateWhitespace]
  ELSE [m EXCEPT !.token = Append(@, char), !.state = stateWord]

(* mutant: a double quote met in stateWord is also pushed *)
StepWord_PushQuote(m, char) ==
  IF char = Space
  THEN [m EXCEPT !.tokens = Append(@, Token(TokenRegular, m.token)),
                 !.token = <<>>, !.state = stateWhitespace]
  ELSE IF char = DQuote
  THEN [m EXCEPT !.token = Append(@, char), !.state = stateString]
  ELSE IF char = SQuote THEN [m EXCEPT !.state = stateLiteral]
  ELSE [m EXCEPT !.token = Append(@, char)]

(* mutant: the word pushed on a space goes to the front of tokens *)
StepWord_Prepend(m, char) ==
  IF char = Space
  THEN [m EXCEPT !.tokens = <<Token(TokenRegular, m.token)>> \o @,
                 !.token = <<>>, !.state = stateWhitespace]
  ELSE IF char = DQuote THEN [m EXCEPT !.state = stateString]
  ELSE IF char = SQuote THEN [m EXCEPT !.state = stateLiteral]
  ELSE [m EXCEPT !.token = Append(@, char)]

(* mutant: a quote met in stateWord first pushes the word *)
StepWord_FlushOnQuote(m, char) ==
  IF char = Space
  THEN [m EXCEPT !.tokens = Append(@, Token(TokenRegular, m.token)),
                 !.token = <<>>, !.state = stateWhitespace]
  ELSE IF char = DQuote
  THEN [m EXCEPT !.tokens = Append(@, Token(TokenRegular, m.token)),
                 !.token = <<>>, !.state = stateString]
  ELSE IF char = SQuote
  THEN [m EXCEPT !.tokens = Append(@, Token(TokenRegular, m.token)),
                 !.token = <<>>, !.state = stateLiteral]
  ELSE [m EXCEPT !.token = Append(@, char)]

(* mutant: a backslash in a bare word starts an escape *)
StepWord_BackslashEscapes(m, char) ==
  IF char = Space
  THEN [m EXCEPT !.tokens = Append(@, Token(TokenRegular, m.token)),
                 !.token = <<>>, !.state = stateWhitespace]
  ELSE IF char = DQuote THEN [m EXCEPT !.state = stateString]
  ELSE IF char = SQuote THEN [m EXCEPT !.state = stateLiteral]
  ELSE IF char = Backslash
  THEN [m EXCEPT !.lastState = m.state, !.state = stateBackslash]
  ELSE [m EXCEPT !.token = Append(@, char)]

(* mutant: the word is pushed on a space but the buffer is not cleared *)
StepWord_NoClear(m, char) ==
  IF char = Space
  THEN [m EXCEPT !.tokens = Append(@, Token(TokenRegular, m.token)),
                 !.state = stateWhitespace]
  ELSE IF char = DQuote THEN [m EXCEPT !.state = stateString]
  ELSE IF char = SQuote THEN [m EXCEPT !.state = stateLiteral]
  ELSE [m EXCEPT !.token = Append(@, char)]

(* case stateWord *)
StepWord(m, char) ==
  IF char = Space
  THEN [m EXCEPT !.tokens = Append(@, Token(TokenRegular, m.token)),
                 !.token = <<>>, !.state = stateWhitespace]
  ELSE IF char = DQuote THEN [m EXCEPT !.state = stateString]
  ELSE IF char = SQuote THEN [m EXCEPT !.state = stateLiteral]
  ELSE [m EXCEPT !.token = Append(@, char)]

(* mutant: the closing double quote returns to stateWord without pushing *)
StepString_NoSplit(m, char) ==
  IF char = DQuote THEN [m EXCEPT !.state = stateWord]
  ELSE IF char = Backslash
  THEN [m EXCEPT !.lastState = m.state, !.state = stateBackslash]
  ELSE [m EXCEPT !.token = Append(@, char)]

(* mutant: a space inside double quotes ends the token *)
StepString_SpaceSeparates(m, char) ==
  IF char = DQuote \/ char = Space
  THEN [m EXCEPT !.tokens = Append(@, Token(TokenRegular, m.token)),
                 !.token = <<>>, !.state = stateWhitespace]
  ELSE IF char = Backslash
  THEN [m EXCEPT !.lastState = m.state, !.state = stateBackslash]
  ELSE [m EXCEPT !.token = Append(@, char)]

(* mutant: the backslash in a double-quoted span does not save the state *)
StepString_NoSave(m, char) ==
  IF char = DQuote
  THEN [m EXCEPT !.tokens = Append(@, Token(TokenRegular, m.token)),
                 !.token = <<>>, !.state = stateWhitespace]
  ELSE IF char = Backslash THEN [m EXCEPT !.state = stateBackslash]
  ELSE [m EXCEPT !.token = Append(@, char)]

(* mutant: the closing double quote pushes the token but keeps the buffer *)
StepString_NoClear(m, char) ==
  IF char = DQuote
  THEN [m EXCEPT !.tokens = Append(@, Token(TokenRegular, m.token)),
                 !.state = stateWhitespace]
  ELSE IF char = Backslash
  THEN [m EXCEPT !.lastState = m.state, !.state = stateBackslash]
  ELSE [m EXCEPT !.token = Append(@, char)]

(* case stateString *)
StepString(m, char) ==
  IF char = DQuote
  THEN [m EXCEPT !.tokens = Append(@, Token(TokenRegular, m.token)),
                 !.token = <<>>, !.state = stateWhitespace]
  ELSE IF char = Backslash
  THEN [m EXCEPT !.lastState = m.state, !.state = stateBackslash]
  ELSE [m EXCEPT !.token = Append(@, char)]

(* mutant: a space inside single quotes pushes the pending token *)
StepLiteral_SpaceFlushes(m, char) ==
  IF char = SQuote \/ char = Space
  THEN [m EXCEPT !.tokens = Append(@, Token(TokenLiteral, m.token)),
                 !.token = <<>>, !.state = stateWhitespace]
  ELSE IF char = Backslash
  THEN [m EXCEPT !.lastState = m.state, !.state = stateBackslash]
  ELSE [m EXCEPT !.token = Append(@, char)]

(* mutant: the closing single quote pushes only a non-empty token *)
StepLiteral_DropEmpty(m, char) ==
  IF char = SQuote
  THEN IF m.token = <<>> THEN [m EXCEPT !.state = stateWhitespace]
       ELSE [m EXCEPT !.tokens = Append(@, Token(TokenLiteral, m.token)),
                      !.token = <<>>, !.state = stateWhitespace]
  ELSE IF char = Backslash
  THEN [m EXCEPT !.lastState = m.state, !.state = stateBackslash]
  ELSE [m EXCEPT !.token = Append(@, char)]

(* mutant: the closing single quote returns to stateWord without pushing *)
StepLiteral_NoSplit(m, char) ==
  IF char = SQuote THEN [m EXCEPT !.state = stateWord]
  ELSE IF char = Backslash
  THEN [m EXCEPT !.lastState = m.state, !.state = stateBackslash]
  ELSE [m EXCEPT !.token = Append(@, char)]

(* mutant: inside single quotes a backslash is ordinary text *)
StepLiteral_RawBackslash(m, char) ==
  IF char = SQuote
  THEN [m EXCEPT !.tokens = Append(@, Token(TokenLiteral, m.token)),
                 !.token = <<>>, !.state = stateWhitespace]
  ELSE [m EXCEPT !.token = Append(@, char)]

(* case stateLiteral *)
StepLiteral(m, char) ==
  IF char = SQuote
  THEN [m EXCEPT !.tokens = Append(@, Token(TokenLiteral, m.token)),
                 !.token = <<>>, !.state = stateWhitespace]
  ELSE IF char = Backslash
  THEN [m EXCEPT !.lastState = m.state, !.state = stateBackslash]
  ELSE [m EXCEPT !.token = Append(@, char)]

(* mutant: the escaped character is pushed undecoded *)
Unescape_NoDecode(char) == char

(* the rune pushed by case stateBackslash *)
Unescape(char) ==
  IF char = RuneN THEN CtlLF
  ELSE IF char = RuneR THEN CtlCR
  ELSE IF char = RuneT THEN CtlTab
  ELSE IF char = RuneB THEN CtlBS
  ELSE IF char = RuneF THEN CtlFF
  ELSE IF char = RuneV THEN CtlVT
  ELSE char

(* mutant: an escaped space is skipped instead of pushed *)
StepBackslash_DropSpace(m, char) ==
  IF char = Space THEN [m EXCEPT !.state = m.lastState]
  ELSE [m EXCEPT !.token = Append(@, Unescape(char)), !.state = m.lastState]

(* case stateBackslash *)
StepBackslash(m, char) ==
  [m EXCEPT !.token = Append(@, Unescape(char)), !.state = m.lastState]

(* switch state: one iteration of the loop body; a state matching no case  *)
(* falls through the switch and changes nothing.                           *)
Step(m, char) ==
  CASE m.state = stateWhitespace -> StepWhitespace(m, char)
    [] m.state = stateWord -> StepWord(m, char)
    [] m.state = stateString -> StepString(m, char)
    [] m.state = stateLiteral -> StepLiteral(m, char)
    [] m.state = stateBackslash -> StepBackslash(m, char)
    [] OTHER -> m

(* the loop run over a rune sequence from a given machine state *)
RECURSIVE Run(_, _)
Run(m, runes) ==
  IF runes = <<>> THEN m
  ELSE Run(Step(m, Head(runes)), Tail(runes))

(* Tokenize(s) as a function of its argument *)
Tokenize(str) == Run(InitMachine, Chars(str)).tokens

(* ------------------------------ inputs --------------------------------- *)
Alphabet == {Space, DQuote, SQuote, Backslash, RuneN, RuneA}

BoundedStrings == UNION {[1..n -> Alphabet] : n \in 0..MaxLen}

(* every rune the switch of stateBackslash names, and some it does not *)
EscapeRunes ==
  {RuneN, RuneR, RuneT, RuneB, RuneF, RuneV, RuneA, RuneX,
   DQuote, SQuote, Backslash, Space}

(* <quote> \ c <quote> for both quotes *)
EscapeInputs ==
  {<<q, Backslash, c, q>> : q \in {DQuote, SQuote}, c \in EscapeRunes}

RECURSIVE Pairs(_)
Pairs(n) ==
  IF n = 0 THEN {<<>>}
  ELSE {p \o <<q, q, Space>> : p \in Pairs(n - 1), q \in {DQuote, SQuote}}

(* n space-separated empty quote pairs, 1 <= n <= MaxPairs *)
PairInputs ==
  {SubSeq(p, 1, Len(p) - 1) : p \in UNION {Pairs(n) : n \in 1..MaxPairs}}

ExUnterminated ==
  <<DQuote, RuneU, RuneN, RuneT, RuneE, RuneR, RuneM, RuneI, RuneN, RuneA,
    RuneT, RuneE, RuneD>>
ExAbcDef == <<RuneA, RuneB, RuneC, Space, DQuote, RuneD, RuneE, RuneF>>
ExMidWord == <<RuneA, RuneB, DQuote, RuneC, RuneD, DQuote, RuneE, RuneF>>
ExRawText ==
  <<SQuote, RuneR, RuneA, RuneW, Backslash, RuneN, RuneT, RuneE, RuneX,
    RuneT, SQuote>>
ExAbcDefGhi ==
  <<RuneA, RuneB, RuneC, Space, DQuote, RuneD, RuneE, RuneF, Space,
    RuneG, RuneH, RuneI, DQuote>>
ExLitPrefix == <<RuneA, RuneB, SQuote, RuneC, RuneD, SQuote>>

ExQuoteThenWord ==
  <<DQuote, RuneA, RuneB, RuneC, DQuote, RuneD, RuneE, RuneF>>
ExWordQuote == <<RuneA, RuneB, DQuote, RuneC, RuneD, DQuote>>
ExBareEscape == <<RuneA, Backslash, RuneN, RuneB>>
ExBareTab == <<RuneA, CtlTab, RuneB>>
ExTrailingEscape == <<RuneA, RuneB, Space, SQuote, RuneC, RuneD, Backslash>>
ExCompose ==
  <<RuneA, DQuote, Backslash, RuneT, DQuote, Space, RuneB, Space, Space,
    SQuote, Backslash, RuneN, SQuote>>

ExEscapedQuotes == <<SQuote, Backslash, DQuote, Backslash, RuneN, SQuote>>

Examples ==
  {ExUnterminated, ExAbcDef, ExMidWord, ExRawText, ExAbcDefGhi, ExLitPrefix,
   ExQuoteThenWord, ExWordQuote, ExBareEscape, ExBareTab, ExTrailingEscape,
   ExCompose, ExEscapedQuotes}

Inputs == BoundedStrings \cup EscapeInputs \cup PairInputs \cup Examples

(* ------------------------------ state ---------------------------------- *)
VARIABLES s, i, state, lastState, token, tokens, pc, result, prov, provs

vars == <<s, i, state, lastState, token, tokens, pc, result, prov, provs>>

Machine ==
  [state |-> state, lastState |-> lastState, token |-> token, tokens |-> tokens]

(* Entry of Tokenize: s is the argument, the locals have their declared    *)
(* values.  prov and provs are history variables: for every rune of token  *)
(* (resp. of every pushed Token) the state, and the lastState, under which *)
(* it was appended.                                                        *)
Init ==
  /\ s \in Inputs
  /\ i = 1
  /\ state = InitMachine.state
  /\ lastState = InitMachine.lastState
  /\ token = InitMachine.token
  /\ tokens = InitMachine.tokens
  /\ pc = "loop"
  /\ result = <<>>
  /\ prov = <<>>
  /\ provs = <<>>

(* One iteration of the for loop, taken in state st *)
LoopBody(st) ==
  /\ pc = "loop"
  /\ i <= Len(Chars(s))
  /\ state = st
  /\ LET m == Step(Machine, Chars(s)[i]) IN
       /\ state' = m.state
       /\ lastState' = m.lastState
       /\ token' = m.token
       /\ tokens' = m.tokens
       /\ prov' = IF Len(m.tokens) > Len(tokens) THEN <<>>
                  ELSE IF Len(m.token) > Len(token)
                  THEN Append(prov, [in |-> state, from |-> lastState])
                  ELSE prov
       /\ provs' = IF Len(m.tokens) > Len(tokens) THEN Append(provs, prov)
                   ELSE provs
  /\ i' = i + 1
  /\ UNCHANGED <<s, pc, result>>

CaseWhitespace == LoopBody(stateWhitespace)
CaseWord == LoopBody(stateWord)
CaseString == LoopBody(stateString)
CaseLiteral == LoopBody(stateLiteral)
CaseBackslash == LoopBody(stateBackslash)

(* return tokens *)
Return ==
  /\ pc = "loop"
  /\ i > Len(Chars(s))
  /\ pc' = "done"
  /\ result' = tokens
  /\ UNCHANGED <<s, i, state, lastState, token, tokens, prov, provs>>

Next ==
  \/ CaseWhitespace
  \/ CaseWord
  \/ CaseString
  \/ CaseLiteral
  \/ CaseBackslash
  \/ Return

Spec == Init /\ [][Next]_vars

(* The loop and the return are sequential code: they always run on *)
FairSpec == Spec /\ WF_vars(Next)

TypeOK ==
  /\ s \in Inputs
  /\ i \in 1..(Len(s) + 2)
  /\ state \in stateT
  /\ lastState \in stateT
  /\ pc \in {"loop", "done"}
  /\ Len(prov) = Len(token)
  /\ Len(provs) = Len(tokens)
  /\ \A k \in 1..Len(tokens) :
       tokens[k].Type \in TokenType /\ Len(provs[k]) = Len(tokens[k].Value)


(* ------------------------- claim vocabulary ---------------------------- *)
(* the rune the next iteration reads, written without Chars *)
CurChar == IF i <= Len(s) THEN s[i] ELSE Space

InLoopBody == pc = "loop" /\ i <= Len(s) + 1

Tok(t, v) == [Type |-> t, Value |-> v]

(* the machine after the real characters of str, before the added space *)
RealEnd(str) == Run(InitMachine, str)

InOpenSpan(m) ==
  \/ m.state \in {stateString, stateLiteral}
  \/ m.state = stateBackslash /\ m.lastState \in {stateString, stateLiteral}

(* positions of str whose rune takes the machine from outside a quoted     *)
(* span into one                                                           *)
OpenPositions(str) ==
  {k \in 1..Len(str) :
     /\ Run(InitMachine, SubSeq(str, 1, k - 1)).state
          \in {stateWhitespace, stateWord}
     /\ Run(InitMachine, SubSeq(str, 1, k)).state
          \in {stateString, stateLiteral}}

LastOpen(str) ==
  CHOOSE k \in OpenPositions(str) : \A j \in OpenPositions(str) : j <= k

(* C1: Tokenize is total: the scan performs exactly len(s)+1 iterations    *)
(* (the characters of s, then one space), every (state, character) pair    *)
(* has a transition so the loop is never stuck, and the scan terminates    *)
(* returning a token sequence.                                             *)
C1_Total ==
  /\ [](pc = "loop" => ENABLED Next)
  /\ [](InLoopBody =>
          /\ state \in stateT
          /\ \A c \in Alphabet \cup EscapeRunes :
               /\ Step(Machine, c).state \in stateT
               /\ Len(Step(Machine, c).tokens) \in {Len(tokens), Len(tokens) + 1})
  /\ [][pc = "loop" =>
          \/ i <= Len(s) + 1 /\ i' = i + 1 /\ pc' = "loop"
          \/ i = Len(s) + 2 /\ i' = i /\ pc' = "done" /\ result' = tokens]_vars
  /\ <>[](pc = "done" /\ i - 1 = Len(s) + 1 /\ result = tokens)

C1_Witness == pc = "done" /\ s = <<>> /\ i = 2 /\ result = <<>>

Plain(c) == c \notin {Space, DQuote, SQuote, Backslash}

IsMidWord(str, a, b) ==
  /\ 1 < a /\ a + 1 < b /\ b < Len(str)
  /\ str[a] = DQuote /\ str[b] = DQuote
  /\ \A k \in 1..Len(str) : k \notin {a, b} => Plain(str[k])

MidWordSplits(str) ==
  {ab \in (1..Len(str)) \X (1..Len(str)) : IsMidWord(str, ab[1], ab[2])}

W1(str, ab) == SubSeq(str, 1, ab[1] - 1)
Q(str, ab) == SubSeq(str, ab[1] + 1, ab[2] - 1)
W2(str, ab) == SubSeq(str, ab[2] + 1, Len(str))

(* C3 as stated: w1"q"w2 yields exactly one Regular token w1 q w2 *)
C3_Original ==
  pc = "done" =>
    \A ab \in MidWordSplits(s) :
      result = <<Tok(TokenRegular, W1(s, ab) \o Q(s, ab) \o W2(s, ab))>>

(* C3 (amended): for an input w1"q"w2 with w1, q, w2 non-empty and free of *)
(* spaces, quotes and backslashes, Tokenize returns exactly two tokens,    *)
(* Regular w1 q and then Regular w2: the quoted text joins the word before *)
(* it, the closing quote ends the token.                                   *)
C3_MidWord ==
  pc = "done" =>
    \A ab \in MidWordSplits(s) :
      result = <<Tok(TokenRegular, W1(s, ab) \o Q(s, ab)),
                 Tok(TokenRegular, W2(s, ab))>>

C3_Witness ==
  /\ pc = "done" /\ s = ExMidWord /\ MidWordSplits(s) = {<<3, 6>>}
  /\ Len(result) = 2

(* ---- re-tokenizing a decoded value ---- *)
NoQuoting(v) == \A k \in 1..Len(v) : v[k] \notin {DQuote, SQuote, Backslash}
NoSpace(v) == \A k \in 1..Len(v) : v[k] # Space

(* C4 as stated: every emitted value without quote or backslash            *)
(* re-tokenizes to exactly one token with the same value                   *)
C4_Original ==
  pc = "done" =>
    \A k \in 1..Len(result) :
      NoQuoting(result[k].Value) =>
        /\ Len(Tokenize(result[k].Value)) = 1
        /\ Tokenize(result[k].Value)[1].Value = result[k].Value

(* C4 (amended): for every token value v that Tokenize emits and that is   *)
(* non-empty and contains no quote character, no backslash and no space,   *)
(* Tokenize(v) returns exactly one token and that token's value is v.      *)
C4_Idempotent ==
  pc = "done" =>
    \A k \in 1..Len(result) :
      (NoQuoting(result[k].Value) /\ NoSpace(result[k].Value)
         /\ result[k].Value # <<>>) =>
        /\ Len(Tokenize(result[k].Value)) = 1
        /\ Tokenize(result[k].Value)[1].Value = result[k].Value

C4_Witness ==
  /\ pc = "done" /\ s = ExRawText /\ Len(result) = 1
  /\ NoQuoting(result[1].Value) /\ NoSpace(result[1].Value)
  /\ \E k \in 1..Len(result[1].Value) : result[1].Value[k] = CtlLF


(* ---- where the runes of a token came from ---- *)
FromLiteralSpan(o) ==
  \/ o.in = stateLiteral
  \/ o.in = stateBackslash /\ o.from = stateLiteral

FromBareOrStringSpan(o) ==
  \/ o.in \in {stateWhitespace, stateWord, stateString}
  \/ o.in = stateBackslash /\ o.from = stateString

(* C5: every character of a Literal token's value was consumed inside a    *)
(* single-quoted span (state Literal, or Backslash entered from Literal),  *)
(* and every character of a Regular token's value as bare-word text or     *)
(* inside a double-quoted span; no bare-word text ends up in a Literal     *)
(* token.                                                                  *)
C5_KindMatchesContext ==
  \A k \in 1..Len(tokens) :
    \A j \in 1..Len(tokens[k].Value) :
      /\ tokens[k].Type = TokenLiteral => FromLiteralSpan(provs[k][j])
      /\ tokens[k].Type = TokenRegular => FromBareOrStringSpan(provs[k][j])

(* C6: in every reachable state and for every emitted token, each double   *)
(* quote in a Regular token's value and each single quote in a Literal     *)
(* token's value was appended by the Backslash state, never by the         *)
(* Whitespace, Word, String or Literal states.                             *)
C6_NoUnescapedDelimiter ==
  \A k \in 1..Len(tokens) :
    \A j \in 1..Len(tokens[k].Value) :
      (\/ tokens[k].Type = TokenRegular /\ tokens[k].Value[j] = DQuote
       \/ tokens[k].Type = TokenLiteral /\ tokens[k].Value[j] = SQuote)
        => provs[k][j].in = stateBackslash

C6_Witness ==
  /\ pc = "done"
  /\ s = <<DQuote, Backslash, DQuote, DQuote>>
  /\ tokens = <<Tok(TokenRegular, <<DQuote>>)>>
  /\ provs[1][1].in = stateBackslash

(* the decoding table of escapes, by code point *)
Decoded(c) ==
  CASE c = 110 -> 10
    [] c = 114 -> 13
    [] c = 116 -> 9
    [] c = 98 -> 8
    [] c = 102 -> 12
    [] c = 118 -> 11
    [] OTHER -> c

(* C7: in state String or Literal a backslash followed by a character c    *)
(* appends exactly one character to pending and nothing else: the decoded  *)
(* control character for n, r, t, b, f, v and c itself otherwise.  The     *)
(* backslash is not appended, an escaped quote does not close the span,    *)
(* and 'raw\ntext' yields one Literal token of 8 characters holding a real *)
(* newline.                                                                *)
C7_EscapeDecoding ==
  /\ [][/\ (InLoopBody /\ state \in {stateString, stateLiteral}
              /\ CurChar = Backslash) =>
             /\ token' = token /\ tokens' = tokens
             /\ state' = stateBackslash /\ lastState' = state
        /\ (InLoopBody /\ state = stateBackslash) =>
             /\ token' = Append(token, Decoded(CurChar))
             /\ tokens' = tokens
             /\ state' = lastState
             /\ state' \in {stateString, stateLiteral}]_vars
  /\ [](pc = "done" /\ s = ExRawText =>
          /\ result = <<Tok(TokenLiteral,
                            <<RuneR, RuneA, RuneW, 10, RuneT, RuneE, RuneX, RuneT>>)>>
          /\ Len(result[1].Value) = 8)

C7_Witness ==
  /\ pc = "done" /\ s = ExRawText
  /\ Len(result) = 1 /\ Len(result[1].Value) = 8 /\ result[1].Value[4] = 10

AllSpaces(str) == \A k \in 1..Len(str) : str[k] = Space

(* C8: for an input of zero or more spaces the machine is in state         *)
(* Whitespace with an empty pending buffer at every step and Tokenize      *)
(* returns the empty token sequence.                                       *)
C8_WhitespaceOnly ==
  AllSpaces(s) =>
    /\ state = stateWhitespace /\ token = <<>> /\ tokens = <<>>
    /\ result = <<>>

C8_Witness ==
  pc = "done" /\ s = <<Space, Space, Space>> /\ i = 5 /\ result = <<>>

(* C9: a space consumed in state String or Literal is appended to pending, *)
(* emits no token and leaves the state unchanged; abc "def ghi" yields     *)
(* exactly (Regular, abc) then (Regular, def ghi).                         *)
C9_SpaceInQuotes ==
  /\ [][(InLoopBody /\ state \in {stateString, stateLiteral}
           /\ CurChar = Space) =>
          /\ token' = Append(token, Space)
          /\ tokens' = tokens
          /\ state' = state]_vars
  /\ [](pc = "done" /\ s = ExAbcDefGhi =>
          result = <<Tok(TokenRegular, <<RuneA, RuneB, RuneC>>),
                     Tok(TokenRegular,
                         <<RuneD, RuneE, RuneF, Space, RuneG, RuneH, RuneI>>)>>)

C9_Witness ==
  /\ pc = "done" /\ s = ExAbcDefGhi /\ Len(result) = 2
  /\ result[2].Value[4] = Space

(* n >= 1 empty quote pairs separated by single spaces *)
IsEmptyPairs(str) ==
  /\ Len(str) % 3 = 2
  /\ \A k \in 1..Len(str) :
       /\ k % 3 = 1 => str[k] \in {DQuote, SQuote}
       /\ k % 3 = 2 => str[k] = str[k - 1]
       /\ k % 3 = 0 => str[k] = Space

KindOfQuote(q) == IF q = DQuote THEN TokenRegular ELSE TokenLiteral
SpanOfQuote(q) == IF q = DQuote THEN stateString ELSE stateLiteral

(* C10: a quote opened from state Whitespace and closed by the very next   *)
(* character emits exactly one token with an empty value, Regular for ""   *)
(* and Literal for ''; n space-separated empty pairs produce n empty       *)
(* tokens.                                                                 *)
C10_EmptyTokens ==
  /\ [][\A q \in {DQuote, SQuote} :
          /\ (InLoopBody /\ state = stateWhitespace /\ CurChar = q) =>
               /\ state' = SpanOfQuote(q)
               /\ token' = <<>> /\ tokens' = tokens
          /\ (InLoopBody /\ state = SpanOfQuote(q) /\ token = <<>>
                /\ CurChar = q) =>
               /\ tokens' = Append(tokens, Tok(KindOfQuote(q), <<>>))
               /\ token' = <<>> /\ state' = stateWhitespace]_vars
  /\ [](pc = "done" /\ IsEmptyPairs(s) =>
          /\ Len(result) = (Len(s) + 1) \div 3
          /\ \A k \in 1..Len(result) :
               result[k] = Tok(KindOfQuote(s[3 * k - 2]), <<>>))

C10_Witness ==
  /\ pc = "done"
  /\ s = <<DQuote, DQuote, Space, SQuote, SQuote, Space, DQuote, DQuote>>
  /\ result = <<Tok(TokenRegular, <<>>), Tok(TokenLiteral, <<>>),
                Tok(TokenRegular, <<>>)>>

RECURSIVE FlushScan(_, _, _, _)
FlushScan(str, k, mode, esc) ==
  IF k > Len(str) THEN <<>>
  ELSE LET c == str[k] IN
    IF esc THEN FlushScan(str, k + 1, mode, FALSE)
    ELSE IF mode \in {2, 3} /\ c = Backslash THEN FlushScan(str, k + 1, mode, TRUE)
    ELSE IF mode = 2 /\ c = DQuote THEN <<k>> \o FlushScan(str, k + 1, 0, FALSE)
    ELSE IF mode = 3 /\ c = SQuote THEN <<k>> \o FlushScan(str, k + 1, 0, FALSE)
    ELSE IF mode \in {2, 3} THEN FlushScan(str, k + 1, mode, FALSE)
    ELSE IF c = DQuote THEN FlushScan(str, k + 1, 2, FALSE)
    ELSE IF c = SQuote THEN FlushScan(str, k + 1, 3, FALSE)
    ELSE IF c = Space
    THEN (IF mode = 1 THEN <<k>> ELSE <<>>) \o FlushScan(str, k + 1, 0, FALSE)
    ELSE FlushScan(str, k + 1, 1, FALSE)

(* positions, in increasing order, of the flushing characters of s + " " *)
FlushPositions(str) == FlushScan(str \o <<Space>>, 1, 0, FALSE)

(* history of C12: the token pushed while reading position k *)
PushedAt(str, k) ==
  LET after == Run(InitMachine, SubSeq(str \o <<Space>>, 1, k)).tokens
  IN after[Len(after)]

(* C12: every step of the scan leaves the token sequence unchanged or      *)
(* appends exactly one token at its end; an emitted token is never         *)
(* modified, removed or reordered, so the i-th returned token is the one   *)
(* pushed by the i-th flushing character (closing quote or terminating     *)
(* space) from the left of the input.                                      *)
C12_AppendOnly ==
  /\ [][\/ tokens' = tokens
        \/ /\ Len(tokens') = Len(tokens) + 1
           /\ SubSeq(tokens', 1, Len(tokens)) = tokens
           /\ tokens'[Len(tokens')].Value = token
           /\ FlushPositions(s)[Len(tokens')] = i]_vars
  /\ [](pc = "done" =>
          /\ result = tokens
          /\ Len(result) = Len(FlushPositions(s))
          /\ \A k \in 1..Len(result) :
               result[k] = PushedAt(s, FlushPositions(s)[k]))

C12_Witness ==
  /\ pc = "done" /\ s = ExCompose
  /\ FlushPositions(s) = <<5, 8, 13>>
  /\ Len(result) = 3
  /\ result[3] = Tok(TokenLiteral, <<10>>)

(* C13: once the scan has consumed the added space the machine is in state *)
(* Whitespace with an empty pending buffer: no token in progress at the    *)
(* end of the input is left unemitted.                                     *)
C13_TrailingSpaceFlushes ==
  ((pc = "loop" /\ i = Len(s) + 2) \/ pc = "done") =>
    state = stateWhitespace /\ token = <<>>

(* C14: from state String on a double quote and from state Literal on a    *)
(* single quote the machine emits pending, clears it and goes to           *)
(* Whitespace whatever follows, so text directly after a closing quote     *)
(* starts a new token: "abc"def yields Regular abc then Regular def.       *)
C14_CloseEndsToken ==
  /\ [][\A q \in {DQuote, SQuote} :
          (InLoopBody /\ state = SpanOfQuote(q) /\ CurChar = q) =>
            /\ tokens' = Append(tokens, Tok(KindOfQuote(q), token))
            /\ token' = <<>>
            /\ state' = stateWhitespace]_vars
  /\ [](pc = "done" /\ s = ExQuoteThenWord =>
          result = <<Tok(TokenRegular, <<RuneA, RuneB, RuneC>>),
                     Tok(TokenRegular, <<RuneD, RuneE, RuneF>>)>>)

C14_Witness ==
  /\ pc = "done" /\ s = ExQuoteThenWord /\ Len(result) = 2
  /\ result[1].Value = <<RuneA, RuneB, RuneC>>

(* C15: the transitions Whitespace or Word on a double quote (to String)   *)
(* and on a single quote (to Literal) leave the pending buffer, the token  *)
(* sequence and the saved state unchanged and do not append the quote; so  *)
(* ab"cd" yields one Regular token abcd.                                   *)
C15_OpenOnlyChangesState ==
  /\ [][\A q \in {DQuote, SQuote} :
          (InLoopBody /\ state \in {stateWhitespace, stateWord}
             /\ CurChar = q) =>
            /\ state' = SpanOfQuote(q)
            /\ token' = token
            /\ tokens' = tokens
            /\ lastState' = lastState]_vars
  /\ [](pc = "done" /\ s = ExWordQuote =>
          result = <<Tok(TokenRegular, <<RuneA, RuneB, RuneC, RuneD>>)>>)

C15_Witness ==
  /\ pc = "done" /\ s = ExWordQuote /\ Len(result) = 1
  /\ Len(result[1].Value) = 4

(* every quote of body is preceded by an escaping backslash and body does  *)
(* not end in a backslash that escapes nothing                             *)
RECURSIVE WellEscapedFrom(_, _, _)
WellEscapedFrom(body, k, esc) ==
  IF k > Len(body) THEN ~esc
  ELSE IF esc THEN WellEscapedFrom(body, k + 1, FALSE)
  ELSE IF body[k] = Backslash THEN WellEscapedFrom(body, k + 1, TRUE)
  ELSE IF body[k] \in {DQuote, SQuote} THEN FALSE
  ELSE WellEscapedFrom(body, k + 1, FALSE)

WellEscaped(body) == WellEscapedFrom(body, 1, FALSE)

Wrap(q, body) == <<q>> \o body \o <<q>>
OtherQuote(q) == IF q = DQuote THEN SQuote ELSE DQuote

(* the bodies b with s = q b q *)
WrappedBody(str, q) ==
  IF Len(str) >= 2 /\ str[1] = q /\ str[Len(str)] = q
  THEN {SubSeq(str, 2, Len(str) - 1)} ELSE {}

(* C16: for every body in which every quote is escaped by a backslash and  *)
(* which does not end in an unterminated escape, Tokenize of the body in   *)
(* double quotes and Tokenize of the body in single quotes each return     *)
(* exactly one token, with equal values, differing only in kind.           *)
C16_EscapesAlikeInBothModes ==
  pc = "done" =>
    \A q \in {DQuote, SQuote} :
      \A body \in WrappedBody(s, q) :
        WellEscaped(body) =>
          /\ Len(result) = 1
          /\ result[1].Type = KindOfQuote(q)
          /\ Tokenize(Wrap(OtherQuote(q), body))
               = <<Tok(KindOfQuote(OtherQuote(q)), result[1].Value)>>

C16_Witness ==
  /\ pc = "done"
  /\ s = ExEscapedQuotes
  /\ WellEscaped(SubSeq(s, 2, 5))
  /\ result = <<Tok(TokenLiteral, <<DQuote, 10>>)>>

(* C17: in every reachable state where state = Backslash the saved state   *)
(* is String or Literal (never Whitespace, Word, Backslash or the          *)
(* uninitialised default), the state Backslash lasts exactly one           *)
(* character, and the state after that character equals the state held     *)
(* immediately before the backslash was read.                              *)
C17_BackslashReturns ==
  /\ [](state = stateBackslash => lastState \in {stateString, stateLiteral})
  /\ [][/\ (InLoopBody /\ state = stateBackslash) =>
             state' = lastState /\ state' # stateBackslash
        /\ state' = stateBackslash =>
             /\ state \in {stateString, stateLiteral}
             /\ CurChar = Backslash
             /\ lastState' = state]_vars

C17_Witness ==
  /\ pc = "loop" /\ s = ExRawText /\ i = 7
  /\ state = stateLiteral /\ lastState = stateLiteral
  /\ token = <<RuneR, RuneA, RuneW, 10>>

SpacePositions(str) == {k \in 1..Len(str) : str[k] = Space}

(* C19: for all inputs a and b such that scanning a leaves the machine in  *)
(* state Whitespace or Word, Tokenize(a, one space, b) equals Tokenize(a)  *)
(* followed by Tokenize(b): nothing of a leaks into the tokens of b.       *)
C19_ComposesOverSpace ==
  pc = "done" =>
    \A k \in SpacePositions(s) :
      LET a == SubSeq(s, 1, k - 1)
          b == SubSeq(s, k + 1, Len(s))
      IN RealEnd(a).state \in {stateWhitespace, stateWord} =>
           result = Tokenize(a) \o Tokenize(b)

C19_Witness ==
  /\ pc = "done" /\ s = ExCompose
  /\ RealEnd(SubSeq(s, 1, 5)).state = stateWhitespace
  /\ RealEnd(SubSeq(s, 1, 7)).state = stateWord
  /\ Tokenize(SubSeq(s, 1, 7)) \o Tokenize(SubSeq(s, 9, 13)) = result
  /\ Len(result) = 3

(* C20: in every reachable state, state = Whitespace implies the pending   *)
(* buffer is empty and state = Word implies it is non-empty; so a token    *)
(* emitted by the Word-on-space transition never has an empty value, and   *)
(* empty values arise only from closing a quote.                           *)
C20_PendingHygiene ==
  /\ [](state = stateWhitespace => token = <<>>)
  /\ [](state = stateWord => token # <<>>)
  /\ [][Len(tokens') > Len(tokens) =>
          /\ state = stateWord => tokens'[Len(tokens')].Value # <<>>
          /\ tokens'[Len(tokens')].Value = <<>> =>
               state \in {stateString, stateLiteral}]_vars

C20_Witness ==
  /\ pc = "loop" /\ s = ExCompose /\ i = 9
  /\ state = stateWhitespace /\ token = <<>>
  /\ tokens[2] = Tok(TokenRegular, <<RuneB>>)

====
